---- MODULE Spec2Model ----
(***************************************************************************)
(* Notification service: the persisted Notification record store (the      *)
(* mongoose model with its instance and static methods), the recipient     *)
(* query controller, and the stateless dispatch path that publishes a      *)
(* notification payload to SNS and then to SQS.                            *)
(*                                                                         *)
(* Time is counted in whole days; `now` is the wall clock.  A nullable     *)
(* field holds <<>> for null and <<v>> for the value v.                    *)
(***************************************************************************)
EXTENDS Integers, Sequences, FiniteSets, TLC

VARIABLES
    store,      \* the notifications collection: _id -> document
    nextId,     \* next fresh _id
    now,        \* wall clock (days)
    last,       \* the last store operation and what it returned
    nodeEnv,    \* process.env.NODE_ENV
    topics,     \* config/aws topics: topic type -> ARN configured?
    reqs,       \* creation requests: request number -> progress record
    events,     \* per request, the collaborator invocations in order
    calls       \* per instance-method request: the document it loaded, until saved

vars == <<store, nextId, now, last, nodeEnv, topics, reqs, events, calls>>

storeVars == <<store, nextId, now, last>>
dispatchVars == <<nodeEnv, topics, reqs, events>>
callVars == <<calls>>

-----------------------------------------------------------------------------
(* Bounds of the model *)

MaxNotifs == 2      \* notifications ever created in the store
MaxClock == 1       \* the clock runs from 0 to MaxClock
MaxReqs == 1        \* creation requests handled in a behaviour
MaxCalls == 2       \* instance-method requests made in a behaviour

(* Program constants *)

TitleMaxLen == 200
MessageMaxLen == 1000
DefaultLimit == 50
DefaultDaysOld == 90
OldAgeDays == 100

-----------------------------------------------------------------------------
(* Values *)

Null == <<>>
Some(v) == <<v>>
IsNull(x) == x = <<>>

Recipients == {"doctor1", "nurse1"}

NotificationTypes ==
    {"file_upload", "task_assigned", "task_due", "task_overdue", "alarm",
     "visit_status", "medicine_reminder", "care_plan_update", "system_alert",
     "other"}
Priorities == {"low", "normal", "high", "urgent"}
RecipientTypes == {"staff", "patient", "admin", "system"}
Statuses == {"pending", "sent", "delivered", "read", "failed"}

\* A text is `pad` surrounding blanks around `len` other characters.
Text(pad, len) == [pad |-> pad, len |-> len]
Trim(t) == [pad |-> 0, len |-> t.len]

Has(o, f) == f \in DOMAIN o
Get(o, f, d) == IF f \in DOMAIN o THEN o[f] ELSE d

EmptyObject == [k \in {} |-> Null]

DeliveryChannel == [sent |-> FALSE, sentAt |-> Null, messageId |-> Null]
DefaultChannels ==
    [push  |-> DeliveryChannel,
     email |-> DeliveryChannel,
     sms   |-> DeliveryChannel,
     inApp |-> [displayed |-> FALSE, displayedAt |-> Null]]

DefaultRelated ==
    [visitId |-> Null, patientId |-> Null, taskId |-> Null,
     carePlanId |-> Null, fileId |-> Null]

-----------------------------------------------------------------------------
(* The schema: validation and defaults of Notification.create *)

\* the validators without the maxlength of title and message
ValidationErrorsWithoutMaxLength(input) ==
       {f \in {"type", "recipientId"} : ~Has(input, f) \/ input[f] = ""}
  \cup {f \in {"title", "message"} :
            ~Has(input, f) \/ Trim(input[f]).len = 0}
  \cup (IF Has(input, "type") /\ input.type \notin NotificationTypes
          THEN {"type"} ELSE {})
  \cup (IF Has(input, "priority") /\ input.priority \notin Priorities
          THEN {"priority"} ELSE {})
  \cup (IF Has(input, "recipientType")
            /\ input.recipientType \notin RecipientTypes
          THEN {"recipientType"} ELSE {})
  \cup (IF Has(input, "status") /\ input.status \notin Statuses
          THEN {"status"} ELSE {})

\* The paths of `input` that fail the schema's validators (a required
\* string fails when it is missing or empty; title and message are trimmed
\* before they are validated).
ValidationErrors(input) ==
       {f \in {"type", "recipientId"} : ~Has(input, f) \/ input[f] = ""}
  \cup {f \in {"title", "message"} :
            ~Has(input, f) \/ Trim(input[f]).len = 0}
  \cup (IF Has(input, "type") /\ input.type \notin NotificationTypes
          THEN {"type"} ELSE {})
  \cup (IF Has(input, "title") /\ Trim(input.title).len > TitleMaxLen
          THEN {"title"} ELSE {})
  \cup (IF Has(input, "message") /\ Trim(input.message).len > MessageMaxLen
          THEN {"message"} ELSE {})
  \cup (IF Has(input, "priority") /\ input.priority \notin Priorities
          THEN {"priority"} ELSE {})
  \cup (IF Has(input, "recipientType")
            /\ input.recipientType \notin RecipientTypes
          THEN {"recipientType"} ELSE {})
  \cup (IF Has(input, "status") /\ input.status \notin Statuses
          THEN {"status"} ELSE {})

\* A nested path of the input: the given sub-fields over the defaults.
Nested(input, f, defaults) ==
    LET given == Get(input, f, EmptyObject)
    IN  [k \in DOMAIN defaults |-> Get(given, k, defaults[k])]

\* the document with the dispatch payload's status 'sent' as its default
NewDocumentDefaultSent(input, t) ==
    [type          |-> input.type,
     title         |-> Trim(input.title),
     message       |-> Trim(input.message),
     priority      |-> Get(input, "priority", "normal"),
     recipientId   |-> input.recipientId,
     recipientType |-> Get(input, "recipientType", "staff"),
     status        |-> Get(input, "status", "sent"),
     read          |-> Get(input, "read", FALSE),
     readAt        |-> Get(input, "readAt", Null),
     channels      |-> [c \in DOMAIN DefaultChannels |->
                           Nested(Get(input, "channels", EmptyObject), c,
                                  DefaultChannels[c])],
     metadata      |-> Get(input, "metadata", EmptyObject),
     relatedEntities |-> Nested(input, "relatedEntities", DefaultRelated),
     actionRequired  |-> Get(input, "actionRequired", FALSE),
     actionUrl       |-> Get(input, "actionUrl", Null),
     actionLabel     |-> Get(input, "actionLabel", Null),
     actionCompleted |-> Get(input, "actionCompleted", FALSE),
     actionCompletedAt |-> Get(input, "actionCompletedAt", Null),
     expiresAt     |-> Get(input, "expiresAt", Null),
     snsMessageId  |-> Get(input, "snsMessageId", Null),
     sqsMessageId  |-> Get(input, "sqsMessageId", Null),
     createdBy     |-> Get(input, "createdBy", "system"),
     createdAt     |-> Get(input, "createdAt", t),
     updatedAt     |-> t]

\* The document built from a valid input at time t: given fields, else the
\* schema's defaults; timestamps and pre('save') set updatedAt.
NewDocument(input, t) ==
    [type          |-> input.type,
     title         |-> Trim(input.title),
     message       |-> Trim(input.message),
     priority      |-> Get(input, "priority", "normal"),
     recipientId   |-> input.recipientId,
     recipientType |-> Get(input, "recipientType", "staff"),
     status        |-> Get(input, "status", "pending"),
     read          |-> Get(input, "read", FALSE),
     readAt        |-> Get(input, "readAt", Null),
     channels      |-> [c \in DOMAIN DefaultChannels |->
                           Nested(Get(input, "channels", EmptyObject), c,
                                  DefaultChannels[c])],
     metadata      |-> Get(input, "metadata", EmptyObject),
     relatedEntities |-> Nested(input, "relatedEntities", DefaultRelated),
     actionRequired  |-> Get(input, "actionRequired", FALSE),
     actionUrl       |-> Get(input, "actionUrl", Null),
     actionLabel     |-> Get(input, "actionLabel", Null),
     actionCompleted |-> Get(input, "actionCompleted", FALSE),
     actionCompletedAt |-> Get(input, "actionCompletedAt", Null),
     expiresAt     |-> Get(input, "expiresAt", Null),
     snsMessageId  |-> Get(input, "snsMessageId", Null),
     sqsMessageId  |-> Get(input, "sqsMessageId", Null),
     createdBy     |-> Get(input, "createdBy", "system"),
     createdAt     |-> Get(input, "createdAt", t),
     updatedAt     |-> t]

-----------------------------------------------------------------------------
(* Instance methods: the document after the method's assignments and save *)

\* pre('save'): updatedAt is refreshed on every save.
preSave(n, t) == [n EXCEPT !.updatedAt = t]

\* markAsRead forgetting to stamp readAt
markAsReadWithoutReadAt(n, t) ==
    preSave([n EXCEPT !.read = TRUE, !.status = "read"], t)

markAsRead(n, t) ==
    preSave([n EXCEPT !.read = TRUE, !.readAt = Some(t), !.status = "read"], t)

completeAction(n, t) ==
    preSave([n EXCEPT !.actionCompleted = TRUE,
                      !.actionCompletedAt = Some(t)], t)

\* The channels whose sub-record declares the paths sent, sentAt and messageId.
\* channels.inApp declares displayed and displayedAt only: what the method
\* assigns under it is no schema path and is not saved.
DeliveryChannels == {"push", "email", "sms"}

\* markAsDelivered setting status to sent whatever it was
markAsDeliveredAlwaysSent(n, channel, messageId, t) ==
    LET withChannel ==
            IF channel \in DeliveryChannels
              THEN [n EXCEPT !.channels[channel] =
                        [sent |-> TRUE, sentAt |-> Some(t),
                         messageId |-> Some(messageId)]]
              ELSE n
    IN  preSave([withChannel EXCEPT !.status = "sent"], t)

markAsDelivered(n, channel, messageId, t) ==
    LET withChannel ==
            IF channel \in DeliveryChannels
              THEN [n EXCEPT !.channels[channel] =
                        [sent |-> TRUE, sentAt |-> Some(t),
                         messageId |-> Some(messageId)]]
              ELSE n
        promoted ==
            IF withChannel.status = "pending"
              THEN [withChannel EXCEPT !.status = "sent"]
              ELSE withChannel
    IN  preSave(promoted, t)

-----------------------------------------------------------------------------
(* Static methods: queries *)

Ids(S) == DOMAIN S

Min(a, b) == IF a < b THEN a ELSE b

\* String order of the priority values, as the store compares them in a sort.
PriorityOrder == [high |-> 1, low |-> 2, normal |-> 3, urgent |-> 4]

\* All orderings of the ids in I.
Orderings(I) ==
    {seq \in [1..Cardinality(I) -> I] :
        \A i, j \in 1..Cardinality(I) : i # j => seq[i] # seq[j]}

\* sort({priority: -1, createdAt: -1}): documents equal on both keys come in
\* any order.
SortedByPriorityThenCreated(S, I) ==
    {seq \in Orderings(I) :
        \A i, j \in 1..Cardinality(I) :
            i < j =>
                \/ PriorityOrder[S[seq[i]].priority]
                     > PriorityOrder[S[seq[j]].priority]
                \/ /\ S[seq[i]].priority = S[seq[j]].priority
                   /\ S[seq[i]].createdAt >= S[seq[j]].createdAt}

\* sort({createdAt: -1})
SortedByCreated(S, I) ==
    {seq \in Orderings(I) :
        \A i, j \in 1..Cardinality(I) :
            i < j => S[seq[i]].createdAt >= S[seq[j]].createdAt}

\* The possible results (sequences of _id) of findUnread at time t.
findUnread(S, recipientId, t) ==
    SortedByPriorityThenCreated(S,
        {id \in Ids(S) :
            /\ S[id].recipientId = recipientId
            /\ S[id].read = FALSE
            /\ (S[id].expiresAt = Null \/ S[id].expiresAt[1] > t)})

\* getUnreadCount counting expired notifications too
getUnreadCountIgnoringExpiry(S, recipientId, t) ==
    Cardinality({id \in Ids(S) :
                    S[id].recipientId = recipientId /\ S[id].read = FALSE})

getUnreadCount(S, recipientId, t) ==
    Cardinality({id \in Ids(S) :
                    /\ S[id].recipientId = recipientId
                    /\ S[id].read = FALSE
                    /\ (S[id].expiresAt = Null \/ S[id].expiresAt[1] > t)})

\* findByRecipient without the read condition
findByRecipientIgnoringRead(S, recipientId, options) ==
    LET matches ==
            {id \in Ids(S) :
                /\ S[id].recipientId = recipientId
                /\ (Has(options, "type") /\ options.type # "")
                        => S[id].type = options.type
                /\ (Has(options, "priority") /\ options.priority # "")
                        => S[id].priority = options.priority}
        limit ==
            IF Has(options, "limit") /\ options.limit # Null
                    /\ options.limit[1] # 0
              THEN options.limit[1] ELSE DefaultLimit
    IN  {SubSeq(seq, 1, Min(limit, Len(seq))) :
            seq \in SortedByCreated(S, matches)}

\* options holds the keys that are not undefined; limit is <<k>> or Null
\* (NaN).  An empty type or priority and a limit of 0 or NaN are falsy.
findByRecipient(S, recipientId, options) ==
    LET matches ==
            {id \in Ids(S) :
                /\ S[id].recipientId = recipientId
                /\ (Has(options, "type") /\ options.type # "")
                        => S[id].type = options.type
                /\ Has(options, "read") => S[id].read = options.read
                /\ (Has(options, "priority") /\ options.priority # "")
                        => S[id].priority = options.priority}
        limit ==
            IF Has(options, "limit") /\ options.limit # Null
                    /\ options.limit[1] # 0
              THEN options.limit[1] ELSE DefaultLimit
    IN  {SubSeq(seq, 1, Min(limit, Len(seq))) :
            seq \in SortedByCreated(S, matches)}

\* parseInt of the limit parameter: a query text has a leading integer
\* (lead = <<k>>) or none (lead = Null, parsed as NaN).
ParseInt(text) == text.lead

\* GET /recipient/:recipientId: the possible responses.
getNotifications(S, recipientId, query) ==
    LET options ==
            [k \in (DOMAIN query \cap {"type", "read", "priority"})
                        \cup {"limit"} |->
                CASE k = "read"  -> (query.read = "true")
                  [] k = "limit" -> IF Has(query, "limit")
                                      THEN ParseInt(query.limit)
                                      ELSE Some(DefaultLimit)
                  [] OTHER       -> query[k]]
    IN  {[status |-> 200,
          body |-> [success |-> TRUE,
                    count |-> Len(seq),
                    data |-> [i \in 1..Len(seq) |-> S[seq[i]]]]] :
            seq \in findByRecipient(S, recipientId, options)}

\* aggregate([{$match: {recipientId}}, {$group: {_id: null, ...}}]): no
\* result for a recipient without documents, else one group in which $push
\* adds one entry per document, in the order the documents reach the stage
\* (any order).
getStats(S, recipientId) ==
    LET matched == {id \in Ids(S) : S[id].recipientId = recipientId}
    IN  IF matched = {}
          THEN {<<>>}
          ELSE {<< [total  |-> Cardinality(matched),
                     unread |-> Cardinality({id \in matched :
                                                 S[id].read = FALSE}),
                     byType |-> [i \in 1..Len(seq) |->
                                    [type |-> S[seq[i]].type, count |-> 1]],
                     byPriority |-> [i \in 1..Len(seq) |->
                                        [priority |-> S[seq[i]].priority,
                                         count |-> 1]]] >> :
                   seq \in Orderings(matched)}

\* GET /recipient/:recipientId/stats: the possible responses.
getStatsResponse(S, recipientId) ==
    {[status |-> 200,
      body |-> [success |-> TRUE,
                data |-> IF Len(stats) > 0 THEN stats[1]
                         ELSE [total |-> 0, unread |-> 0]]] :
        stats \in getStats(S, recipientId)}

-----------------------------------------------------------------------------
(* Static methods: bulk updates and deletes *)

\* the filter without read: false
markAllAsReadMatchedAnyRead(S, recipientId) ==
    {id \in Ids(S) : S[id].recipientId = recipientId}

\* updateMany({recipientId, read: false}, {$set: {read, readAt, status}})
markAllAsReadMatched(S, recipientId) ==
    {id \in Ids(S) : S[id].recipientId = recipientId /\ S[id].read = FALSE}

\* updateOne in place of updateMany: only the first match is updated
markAllAsReadUpdateOne(S, recipientId, t) ==
    [id \in Ids(S) |->
        IF /\ S[id].recipientId = recipientId /\ S[id].read = FALSE
           /\ \A other \in Ids(S) :
                (S[other].recipientId = recipientId /\ S[other].read = FALSE)
                    => id <= other
          THEN [S[id] EXCEPT !.read = TRUE, !.readAt = Some(t),
                             !.status = "read", !.updatedAt = t]
          ELSE S[id]]

markAllAsRead(S, recipientId, t) ==
    [id \in Ids(S) |->
        IF id \in markAllAsReadMatched(S, recipientId)
          THEN [S[id] EXCEPT !.read = TRUE, !.readAt = Some(t),
                             !.status = "read", !.updatedAt = t]
          ELSE S[id]]

\* the filter without read: true
deleteOldMatchedAnyRead(S, daysOld, t) ==
    LET cutoffDate == t - daysOld
    IN  {id \in Ids(S) : S[id].createdAt < cutoffDate}

\* deleteMany({createdAt: {$lt: cutoffDate}, read: true})
deleteOldMatched(S, daysOld, t) ==
    LET cutoffDate == t - daysOld
    IN  {id \in Ids(S) : S[id].createdAt < cutoffDate /\ S[id].read = TRUE}

Remove(S, I) == [id \in Ids(S) \ I |-> S[id]]

deleteOld(S, daysOld, t) == Remove(S, deleteOldMatched(S, daysOld, t))

\* The TTL index on expiresAt (expireAfterSeconds: 0): a pass of the TTL
\* monitor removes the documents whose expiresAt has been reached.
ttlExpired(S, t) ==
    {id \in Ids(S) : S[id].expiresAt # Null /\ S[id].expiresAt[1] <= t}

-----------------------------------------------------------------------------
(* Store operations *)

SampleTitle == Text(1, 5)
SampleMessage == Text(0, 9)

\* Inputs given to Notification.create at time t.
CreateInputs(t) ==
    { \* priority given, everything else defaulted
      [type |-> "file_upload", title |-> SampleTitle,
       message |-> SampleMessage, priority |-> "high",
       recipientId |-> "doctor1"],
      \* created already read, with a creation date in the past
      [type |-> "task_assigned", title |-> SampleTitle,
       message |-> SampleMessage, recipientId |-> "doctor1",
       read |-> TRUE, createdAt |-> t - OldAgeDays],
      \* unread, with a creation date in the past, expiring tomorrow
      [type |-> "task_assigned", title |-> SampleTitle,
       message |-> SampleMessage, priority |-> "urgent",
       recipientId |-> "nurse1", read |-> FALSE,
       createdAt |-> t - OldAgeDays, expiresAt |-> Some(t + 1)],
      \* expired yesterday
      [type |-> "file_upload", title |-> SampleTitle,
       message |-> SampleMessage, recipientId |-> "doctor1",
       expiresAt |-> Some(t - 1)],
      \* required fields missing
      [title |-> SampleTitle] }

DaysOldInputs == {1, DefaultDaysOld}
ChannelInputs == {"push", "fax"}
MessageIdInputs == {"msg-123"}

\* Notification.create(input)
Create(input) ==
    /\ nextId <= MaxNotifs
    /\ IF ValidationErrors(input) = {}
         THEN /\ store' = (nextId :> NewDocument(input, now)) @@ store
              /\ nextId' = nextId + 1
              /\ last' = [op |-> "create", input |-> input, ok |-> TRUE,
                          id |-> nextId]
         ELSE /\ UNCHANGED <<store, nextId>>
              /\ last' = [op |-> "create", input |-> input, ok |-> FALSE,
                          error |-> "ValidationError",
                          paths |-> ValidationErrors(input)]
    /\ UNCHANGED <<now, dispatchVars, callVars>>

\* PUT /:id/read: findById, then the instance method
MarkAsRead(id) ==
    /\ IF id \in Ids(store)
         THEN /\ store' = [store EXCEPT ![id] = markAsRead(store[id], now)]
              /\ last' = [op |-> "markAsRead", id |-> id, status |-> 200]
         ELSE /\ UNCHANGED store
              /\ last' = [op |-> "markAsRead", id |-> id, status |-> 404]
    /\ UNCHANGED <<nextId, now, dispatchVars, callVars>>

\* notification.markAsDelivered(channel, messageId) on a loaded document
MarkAsDelivered(id, channel, messageId) ==
    /\ id \in Ids(store)
    /\ store' = [store EXCEPT
                    ![id] = markAsDelivered(store[id], channel, messageId, now)]
    /\ last' = [op |-> "markAsDelivered", id |-> id, channel |-> channel,
                messageId |-> messageId]
    /\ UNCHANGED <<nextId, now, dispatchVars, callVars>>

\* notification.completeAction() on a loaded document
CompleteAction(id) ==
    /\ id \in Ids(store)
    /\ store' = [store EXCEPT ![id] = completeAction(store[id], now)]
    /\ last' = [op |-> "completeAction", id |-> id]
    /\ UNCHANGED <<nextId, now, dispatchVars, callVars>>

\* PUT /recipient/:recipientId/read-all
MarkAllAsRead(recipientId) ==
    /\ store' = markAllAsRead(store, recipientId, now)
    /\ last' = [op |-> "markAllAsRead", recipientId |-> recipientId,
                modifiedCount |->
                    Cardinality(markAllAsReadMatched(store, recipientId))]
    /\ UNCHANGED <<nextId, now, dispatchVars, callVars>>

\* Notification.deleteOld(daysOld)
DeleteOld(daysOld) ==
    /\ store' = deleteOld(store, daysOld, now)
    /\ last' = [op |-> "deleteOld", daysOld |-> daysOld,
                deleted |-> deleteOldMatched(store, daysOld, now)]
    /\ UNCHANGED <<nextId, now, dispatchVars, callVars>>

\* the delete answering success whether or not a document was found
DeleteNotificationAlwaysOk(id) ==
    /\ store' = Remove(store, {id} \cap Ids(store))
    /\ last' = [op |-> "delete", id |-> id, status |-> 200]
    /\ UNCHANGED <<nextId, now, dispatchVars, callVars>>

\* DELETE /:id: findByIdAndDelete
DeleteNotification(id) ==
    /\ IF id \in Ids(store)
         THEN /\ store' = Remove(store, {id})
              /\ last' = [op |-> "delete", id |-> id, status |-> 200]
         ELSE /\ UNCHANGED store
              /\ last' = [op |-> "delete", id |-> id, status |-> 404]
    /\ UNCHANGED <<nextId, now, dispatchVars, callVars>>

\* A pass of the TTL monitor
TTLExpire ==
    /\ ttlExpired(store, now) # {}
    /\ store' = Remove(store, ttlExpired(store, now))
    /\ last' = [op |-> "ttl"]
    /\ UNCHANGED <<nextId, now, dispatchVars, callVars>>

\* A day passes
Tick ==
    /\ now < MaxClock
    /\ now' = now + 1
    /\ last' = [op |-> "tick"]
    /\ UNCHANGED <<store, nextId, dispatchVars, callVars>>

-----------------------------------------------------------------------------
(* The instance methods across their awaits: a caller loads a document with
   findById, the method assigns to the loaded copy, and save() writes the
   modified paths back. Other requests may run between the two. *)

Callers == 1..MaxCalls

\* What is kept of a request once its save has settled.
Settled == [op |-> "settled"]

\* The requests that have loaded their document and have yet to save it.
Loaded == {p \in DOMAIN calls : calls[p] # Settled}

InstanceMethods == {"markAsRead", "markAsDelivered", "completeAction"}

\* The loaded copy after the method's assignments and pre('save'), the
\* method reading the clock at t.
Assigned(call, t) ==
    CASE call.op = "markAsRead" -> markAsRead(call.doc, t)
      [] call.op = "completeAction" -> completeAction(call.doc, t)
      [] call.op = "markAsDelivered" ->
            markAsDelivered(call.doc, call.args[1], call.args[2], t)

\* save() overwriting the stored document with the caller's copy
SaveOntoWhole(stored, loaded, changed) == changed

\* save() of an existing document: updateOne({_id}, {$set: ...}) with the
\* paths whose value the method changed on the loaded copy; every other
\* path keeps what is stored. The paths under channels are set one by one.
SaveOnto(stored, loaded, changed) ==
    [f \in DOMAIN stored |->
        IF f = "channels"
          THEN [c \in DOMAIN stored.channels |->
                  [k \in DOMAIN stored.channels[c] |->
                      IF changed.channels[c][k] # loaded.channels[c][k]
                        THEN changed.channels[c][k]
                        ELSE stored.channels[c][k]]]
          ELSE IF changed[f] # loaded[f] THEN changed[f] ELSE stored[f]]

\* The fields in which the stored document has moved on from a loaded copy.
Stale(stored, loaded) == {f \in DOMAIN loaded : stored[f] # loaded[f]}

\* findById(id) on behalf of an instance method; the markAsRead controller
\* answers 404 when there is no such document.
Load(p, op, id, args) ==
    /\ p = Cardinality(DOMAIN calls) + 1
    /\ IF id \in Ids(store)
         THEN /\ calls' = (p :> [op |-> op, id |-> id, args |-> args,
                                 at |-> now, doc |-> store[id]]) @@ calls
              /\ UNCHANGED last
         ELSE /\ op = "markAsRead"
              /\ last' = [op |-> "markAsRead", id |-> id, status |-> 404]
              /\ UNCHANGED calls
    /\ UNCHANGED <<store, nextId, now, dispatchVars>>

\* the save inserting the caller's copy when the document is gone
SaveUpserting(p) ==
    /\ p \in Loaded
    /\ \E t \in calls[p].at..now :
          LET call == calls[p]
              changed == Assigned(call, t)
          IN  /\ store' =
                    IF call.id \in Ids(store)
                      THEN [store EXCEPT ![call.id] =
                                SaveOnto(@, call.doc, changed)]
                      ELSE (call.id :> changed) @@ store
              /\ last' = [op |-> call.op, id |-> call.id, caller |-> p,
                          status |-> 200, loaded |-> call.doc,
                          stale |-> IF call.id \in Ids(store)
                                      THEN Stale(store[call.id], call.doc)
                                      ELSE {}]
    /\ calls' = [calls EXCEPT ![p] = Settled]
    /\ UNCHANGED <<nextId, now, dispatchVars>>

\* The method on the loaded copy and its save(). The update matches no
\* document when the notification was deleted meanwhile: nothing is
\* written and save() rejects with DocumentNotFoundError (a 500 from the
\* markAsRead controller's catch).
Save(p) ==
    /\ p \in Loaded
    /\ \E t \in calls[p].at..now :
          LET call == calls[p]
              changed == Assigned(call, t)
          IN  IF call.id \in Ids(store)
                THEN /\ store' = [store EXCEPT ![call.id] =
                                      SaveOnto(@, call.doc, changed)]
                     /\ last' = [op |-> call.op, id |-> call.id,
                                 caller |-> p, status |-> 200,
                                 loaded |-> call.doc,
                                 stale |-> Stale(store[call.id], call.doc)]
                ELSE /\ UNCHANGED store
                     /\ last' = [op |-> call.op, id |-> call.id,
                                 caller |-> p, status |-> 500,
                                 error |-> "DocumentNotFoundError",
                                 loaded |-> call.doc]
    /\ calls' = [calls EXCEPT ![p] = Settled]
    /\ UNCHANGED <<nextId, now, dispatchVars>>

-----------------------------------------------------------------------------
(* Creation requests: the controller's validation *)

TopicTypes == {"TASK", "ALARM", "VISIT", "MEDICINE"}

\* The Joi schemas: required and optional keys, and the keys with a closed
\* set of valid values.  A Joi object rejects keys it does not declare and
\* Joi.string() rejects the empty string.
notificationSchema ==
    [required |-> {"type", "entityType", "entityId", "title", "message"},
     optional |-> {"priority", "recipients", "metadata"},
     valid    |-> [entityType |-> {"task", "alarm", "visit", "medicine"},
                   priority   |-> Priorities],
     strings  |-> {"type", "entityType", "entityId", "title", "message",
                   "priority"},
     defaults |-> [priority |-> "normal"]]

taskNotificationSchema ==
    [required |-> {"taskId", "title"},
     optional |-> {"priority", "assignedTo", "dueDate", "patientId"},
     valid    |-> [priority |-> Priorities],
     strings  |-> {"taskId", "title", "priority", "assignedTo", "patientId"},
     defaults |-> EmptyObject]

alarmNotificationSchema ==
    [required |-> {"alarmId", "alarmType"},
     optional |-> {"message", "patientId", "location", "recipients"},
     valid    |-> EmptyObject,
     strings  |-> {"alarmId", "alarmType", "message", "patientId",
                   "location"},
     defaults |-> EmptyObject]

visitNotificationSchema ==
    [required |-> {"visitId", "patientId", "status"},
     optional |-> {"nurseId", "visitType", "recipients"},
     valid    |-> EmptyObject,
     strings  |-> {"visitId", "patientId", "status", "nurseId", "visitType"},
     defaults |-> EmptyObject]

medicineNotificationSchema ==
    [required |-> {"medicineId", "patientId", "medicineName", "changeType"},
     optional |-> {"dosage", "message", "recipients"},
     valid    |-> [changeType |-> {"added", "updated", "removed"}],
     strings  |-> {"medicineId", "patientId", "medicineName", "changeType",
                   "dosage", "message"},
     defaults |-> EmptyObject]

\* A date in a request body is an instant written in some form; Joi.date()
\* converts it to a Date, and JSON writes a Date in the canonical ISO form.
DateIn(instant, form) == [instant |-> instant, form |-> form]
ToDate(d) == [instant |-> d.instant, form |-> "Date"]
DateToJSON(d) == [instant |-> d.instant, form |-> "iso"]

\* The keys of body that schema.validate(body) reports.
JoiErrors(schema, body) ==
         (schema.required \ DOMAIN body)
    \cup (DOMAIN body \ (schema.required \cup schema.optional))
    \cup {k \in DOMAIN body \cap DOMAIN schema.valid :
            body[k] \notin schema.valid[k]}
    \cup {k \in DOMAIN body \cap schema.strings : body[k] = ""}

\* The value schema.validate(body) yields for a valid body.
JoiValue(schema, body) ==
    [k \in DOMAIN body \cup DOMAIN schema.defaults |->
        IF k \in DOMAIN body
          THEN IF k = "dueDate" THEN ToDate(body[k]) ELSE body[k]
          ELSE schema.defaults[k]]

-----------------------------------------------------------------------------
(* Creation requests: the notification service *)

\* the switch with a default branch that routes to the TASK topic
TopicTypeOfDefaultTask(entityType) ==
    CASE entityType = "alarm"    -> Some("ALARM")
      [] entityType = "visit"    -> Some("VISIT")
      [] entityType = "medicine" -> Some("MEDICINE")
      [] OTHER                   -> Some("TASK")

\* The switch on entityType; Null stands for the default branch, which throws.
TopicTypeOf(entityType) ==
    CASE entityType = "task"     -> Some("TASK")
      [] entityType = "alarm"    -> Some("ALARM")
      [] entityType = "visit"    -> Some("VISIT")
      [] entityType = "medicine" -> Some("MEDICINE")
      [] entityType = "audio"    -> Some("TASK")
      [] entityType = "photo"    -> Some("TASK")
      [] OTHER                   -> Null

\* The keys of o that hold a value (a key holding undefined is left out).
Defined(o, keys) == [k \in keys \cap DOMAIN o |-> o[k]]

\* The notification object createNotification builds; uuid is the fresh id.
BuildNotification(data, uuid, t) ==
    [id         |-> uuid,
     type       |-> data.type,
     entityType |-> data.entityType,
     entityId   |-> data.entityId,
     title      |-> data.title,
     message    |-> data.message,
     priority   |-> Get(data, "priority", "normal"),
     recipients |-> Get(data, "recipients", <<>>),
     metadata   |-> Get(data, "metadata", EmptyObject),
     timestamp  |-> t,
     status     |-> "sent"]

\* the task template ignoring the priority of the request
TaskNotificationDataFixedPriority(taskData) ==
    [type       |-> "task_created",
     entityType |-> "task",
     entityId   |-> taskData.taskId,
     title      |-> "New Task Assigned",
     message    |-> <<"Task assigned to you", taskData.title>>,
     priority   |-> "normal",
     recipients |-> IF Has(taskData, "assignedTo")
                      THEN <<taskData.assignedTo>> ELSE <<>>,
     metadata   |-> LET m == Defined(taskData, {"dueDate", "patientId"})
                    IN  ("taskTitle" :> taskData.title) @@ m]

\* The argument each convenience variant hands to createNotification.
TaskNotificationData(taskData) ==
    [type       |-> "task_created",
     entityType |-> "task",
     entityId   |-> taskData.taskId,
     title      |-> "New Task Assigned",
     message    |-> <<"Task assigned to you", taskData.title>>,
     priority   |-> Get(taskData, "priority", "normal"),
     recipients |-> IF Has(taskData, "assignedTo")
                      THEN <<taskData.assignedTo>> ELSE <<>>,
     metadata   |-> LET m == Defined(taskData, {"dueDate", "patientId"})
                    IN  ("taskTitle" :> taskData.title) @@ m]

AlarmNotificationData(alarmData) ==
    [type       |-> "alarm_triggered",
     entityType |-> "alarm",
     entityId   |-> alarmData.alarmId,
     title      |-> "Alarm Triggered",
     message    |-> Get(alarmData, "message", "An alarm has been triggered"),
     priority   |-> "high",
     recipients |-> Get(alarmData, "recipients", <<>>),
     metadata   |-> Defined(alarmData, {"alarmType", "patientId", "location"})]

VisitStatusNotificationData(visitData) ==
    [type       |-> "visit_status_changed",
     entityType |-> "visit",
     entityId   |-> visitData.visitId,
     title      |-> "Visit Status Updated",
     message    |-> <<"Visit status changed to", visitData.status>>,
     priority   |-> "normal",
     recipients |-> Get(visitData, "recipients", <<>>),
     metadata   |-> Defined(visitData,
                        {"patientId", "nurseId", "status", "visitType"})]

MedicineNotificationData(medicineData) ==
    [type       |-> "medicine_updated",
     entityType |-> "medicine",
     entityId   |-> medicineData.medicineId,
     title      |-> "Medication Updated",
     message    |-> Get(medicineData, "message",
                        "Patient medication has been updated"),
     priority   |-> "high",
     recipients |-> Get(medicineData, "recipients", <<>>),
     metadata   |-> Defined(medicineData,
                        {"patientId", "medicineName", "changeType", "dosage"})]

\* JSON.stringify(notification): a Date is written in the ISO form.
Serialize(notification) ==
    [notification EXCEPT !.metadata =
        [k \in DOMAIN @ |-> IF k = "dueDate" THEN DateToJSON(@[k]) ELSE @[k]]]

\* createNotification publishing in development mode as in any other
createNotificationBeginAlwaysPublishing(data, uuid, t, env, configured) ==
    LET notification == BuildNotification(data, uuid, t)
        topicType == TopicTypeOf(data.entityType)
    IN  IF topicType = Null
          THEN [pc |-> "done", notification |-> notification,
                outcome |-> [kind |-> "thrown",
                             error |-> <<"Unknown entity type",
                                         data.entityType>>],
                events |-> <<>>]
        ELSE IF ~configured[topicType[1]]
          THEN [pc |-> "done", notification |-> notification,
                outcome |-> [kind |-> "thrown",
                             error |-> <<"Invalid topic type", topicType[1]>>],
                events |-> <<>>]
        ELSE [pc |-> "snsWait", notification |-> notification,
              outcome |-> [kind |-> "pending"],
              events |-> << [call |-> "sns", phase |-> "start",
                             topic |-> topicType[1],
                             message |-> Serialize(notification)] >>]

\* What createNotification does up to its first await: the notification it
\* built and either its outcome or the SNS publish it started.
createNotificationBegin(data, uuid, t, env, configured) ==
    LET notification == BuildNotification(data, uuid, t)
        topicType == TopicTypeOf(data.entityType)
    IN  IF topicType = Null
          THEN [pc |-> "done", notification |-> notification,
                outcome |-> [kind |-> "thrown",
                             error |-> <<"Unknown entity type",
                                         data.entityType>>],
                events |-> <<>>]
        ELSE IF env = "development"
          THEN [pc |-> "done", notification |-> notification,
                outcome |-> [kind |-> "returned",
                             value |-> [success |-> TRUE,
                                        notification |-> notification,
                                        sns |-> [success |-> TRUE,
                                                 messageId |-> "local-dev-mock"],
                                        sqs |-> [success |-> TRUE,
                                                 messageId |-> "local-dev-mock"]]],
                events |-> <<>>]
        ELSE IF ~configured[topicType[1]]
          THEN [pc |-> "done", notification |-> notification,
                outcome |-> [kind |-> "thrown",
                             error |-> <<"Invalid topic type", topicType[1]>>],
                events |-> <<>>]
        ELSE [pc |-> "snsWait", notification |-> notification,
              outcome |-> [kind |-> "pending"],
              events |-> << [call |-> "sns", phase |-> "start",
                             topic |-> topicType[1],
                             message |-> Serialize(notification)] >>]

\* createNotification returning as soon as the SQS send has been started
createNotificationAfterSNSNoAwait(req, result, cause) ==
    IF result # Null
      THEN [req EXCEPT
              !.pc = "done",
              !.sns = [success |-> TRUE, messageId |-> result[1]],
              !.outcome =
                  [kind |-> "returned",
                   value |-> [success |-> TRUE,
                              notification |-> req.notification,
                              sns |-> [success |-> TRUE,
                                       messageId |-> result[1]],
                              sqs |-> [success |-> TRUE]]]]
      ELSE [req EXCEPT !.pc = "done",
                       !.outcome = [kind |-> "thrown", error |-> cause]]

\* createNotification after publishToSNS settled: result is <<messageId>> on
\* success and Null on failure with the given cause.
createNotificationAfterSNS(req, result, cause) ==
    IF result # Null
      THEN [req EXCEPT !.pc = "sqsWait",
                       !.sns = [success |-> TRUE, messageId |-> result[1]]]
      ELSE [req EXCEPT !.pc = "done",
                       !.outcome = [kind |-> "thrown", error |-> cause]]

eventsAfterSNS(req, result) ==
    IF result # Null
      THEN << [call |-> "sns", phase |-> "ok"],
              [call |-> "sqs", phase |-> "start",
               message |-> Serialize(req.notification)] >>
      ELSE << [call |-> "sns", phase |-> "fail"] >>

\* createNotification swallowing a failed SQS send
createNotificationAfterSQSSwallowing(req, result, cause) ==
    [req EXCEPT
        !.pc = "done",
        !.outcome =
            [kind |-> "returned",
             value |-> [success |-> TRUE,
                        notification |-> req.notification,
                        sns |-> req.sns,
                        sqs |-> [success |-> result # Null]]]]

\* createNotification after sendToSQS settled.
createNotificationAfterSQS(req, result, cause) ==
    IF result # Null
      THEN [req EXCEPT
              !.pc = "done",
              !.outcome =
                  [kind |-> "returned",
                   value |-> [success |-> TRUE,
                              notification |-> req.notification,
                              sns |-> req.sns,
                              sqs |-> [success |-> TRUE,
                                       messageId |-> result[1]]]]]
      ELSE [req EXCEPT !.pc = "done",
                       !.outcome = [kind |-> "thrown", error |-> cause]]

eventsAfterSQS(req, result) ==
    IF result # Null
      THEN << [call |-> "sqs", phase |-> "ok"] >>
      ELSE << [call |-> "sqs", phase |-> "fail"] >>

\* The controller's answer to a settled service call: 201 with the result,
\* or 500 with the error's message.  A direct caller of the service gets no
\* HTTP response.
respond(req) ==
    IF req.kind = "service" \/ req.outcome.kind = "pending"
      THEN req
    ELSE IF req.outcome.kind = "returned"
      THEN [req EXCEPT !.response =
              [status |-> 201,
               body |-> [req.outcome.value EXCEPT
                            !.notification = Serialize(@)]]]
      ELSE [req EXCEPT !.response =
              [status |-> 500, body |-> [error |-> req.outcome.error]]]

SchemaOf(kind) ==
    CASE kind = "generic"  -> notificationSchema
      [] kind = "task"     -> taskNotificationSchema
      [] kind = "alarm"    -> alarmNotificationSchema
      [] kind = "visit"    -> visitNotificationSchema
      [] kind = "medicine" -> medicineNotificationSchema

\* The argument of createNotification for a validated request.
ServiceData(kind, value) ==
    CASE kind = "task"     -> TaskNotificationData(value)
      [] kind = "alarm"    -> AlarmNotificationData(value)
      [] kind = "visit"    -> VisitStatusNotificationData(value)
      [] kind = "medicine" -> MedicineNotificationData(value)
      [] OTHER             -> value

NoResponse == [status |-> 0]

\* A creation request up to its first await.  kind "service" is a direct
\* call of notificationService.createNotification(body).
handleCreate(kind, body, uuid, t, env, configured) ==
    IF kind # "service" /\ JoiErrors(SchemaOf(kind), body) # {}
      THEN [req |-> [kind |-> kind, body |-> body, pc |-> "done",
                     notification |-> Null, sns |-> Null,
                     outcome |-> [kind |-> "rejected"],
                     response |-> [status |-> 400,
                                   body |-> [error |->
                                       JoiErrors(SchemaOf(kind), body)]]],
            events |-> <<>>]
      ELSE LET value == IF kind = "service" THEN body
                        ELSE JoiValue(SchemaOf(kind), body)
               begun == createNotificationBegin(ServiceData(kind, value),
                                                uuid, t, env, configured)
           IN  [req |-> respond([kind |-> kind, body |-> body,
                                 pc |-> begun.pc,
                                 notification |-> begun.notification,
                                 sns |-> Null,
                                 outcome |-> begun.outcome,
                                 response |-> NoResponse]),
                events |-> begun.events]

-----------------------------------------------------------------------------
(* Creation request inputs *)

GenericBodies ==
    { [type |-> "file_upload", entityType |-> "visit",
       entityId |-> "visit123", title |-> "File Uploaded",
       message |-> "A new file has been uploaded", priority |-> "high",
       recipients |-> <<"doctor1">>, metadata |-> [fileType |-> "photo"]],
      [type |-> "file_upload", entityType |-> "audio",
       entityId |-> "audio1", title |-> "Audio", message |-> "New audio"],
      [type |-> "other", entityType |-> "room",
       entityId |-> "room1", title |-> "Room", message |-> "Room"],
      [title |-> "Test"] }

TaskBodies ==
    { [taskId |-> "task123", title |-> "Review Patient Chart",
       priority |-> "high", assignedTo |-> "doctor1",
       dueDate |-> DateIn(5, "iso"), patientId |-> "patient456"],
      [taskId |-> "task124", title |-> "Round",
       assignedTo |-> "nurse1", dueDate |-> DateIn(7, "dateOnly")],
      [taskId |-> "task125", title |-> "Unassigned"],
      [title |-> "No id"] }

AlarmBodies ==
    { [alarmId |-> "alarm123", alarmType |-> "fall_detection",
       message |-> "Patient fall detected", location |-> "Room 101",
       recipients |-> <<"nurse1", "doctor1">>] }

VisitBodies ==
    { [visitId |-> "visit123", patientId |-> "patient456",
       status |-> "completed", recipients |-> <<"doctor1">>] }

MedicineBodies ==
    { [medicineId |-> "med123", patientId |-> "patient456",
       medicineName |-> "Aspirin", changeType |-> "added",
       recipients |-> <<"nurse1">>] }

ServiceBodies ==
    { [type |-> "file_upload", entityType |-> "photo",
       entityId |-> "photo1", title |-> "Photo", message |-> "New photo"],
      [type |-> "other", entityType |-> "room",
       entityId |-> "room1", title |-> "Room", message |-> "Room",
       recipients |-> <<"doctor1">>] }

RequestInputs ==
         {<<"generic", b>> : b \in GenericBodies}
    \cup {<<"task", b>> : b \in TaskBodies}
    \cup {<<"alarm", b>> : b \in AlarmBodies}
    \cup {<<"visit", b>> : b \in VisitBodies}
    \cup {<<"medicine", b>> : b \in MedicineBodies}
    \cup {<<"service", b>> : b \in ServiceBodies}

\* How a collaborator call settles: <<messageId>>, or Null with a cause.
SnsCause == "SNS publish failed"
SqsCause == "SQS send failed"

-----------------------------------------------------------------------------
(* Creation request steps *)

\* A creation request arrives and runs to its first await.
ReceiveCreate(kind, body) ==
    LET q == Cardinality(DOMAIN reqs) + 1
        h == handleCreate(kind, body, q, now, nodeEnv, topics)
    IN  /\ q <= MaxReqs
        /\ reqs' = (q :> h.req) @@ reqs
        /\ events' = (q :> h.events) @@ events
        /\ UNCHANGED <<storeVars, callVars, nodeEnv, topics>>

\* snsClient.send settles and createNotification goes on to sendToSQS.
SnsSettles(q, ok) ==
    LET result == IF ok THEN Some("sns-message-id") ELSE Null
    IN  /\ q \in DOMAIN reqs
        /\ reqs[q].pc = "snsWait"
        /\ reqs' = [reqs EXCEPT
                      ![q] = respond(createNotificationAfterSNS(@, result,
                                                                 SnsCause))]
        /\ events' = [events EXCEPT
                        ![q] = @ \o eventsAfterSNS(reqs[q], result)]
        /\ UNCHANGED <<storeVars, callVars, nodeEnv, topics>>

\* the request also writing a record per recipient once it has succeeded
SqsSettlesPersisting(q, ok) ==
    LET result == IF ok THEN Some("sqs-message-id") ELSE Null
        n == reqs[q].notification
        persisted ==
            IF ok /\ Len(n.recipients) > 0 /\ nextId <= MaxNotifs
              THEN (nextId :>
                      NewDocument([type |-> "other", title |-> SampleTitle,
                                   message |-> SampleMessage,
                                   priority |-> n.priority,
                                   recipientId |-> n.recipients[1],
                                   metadata |-> n.metadata], now)) @@ store
              ELSE store
    IN  /\ q \in DOMAIN reqs
        /\ reqs[q].pc = "sqsWait"
        /\ reqs' = [reqs EXCEPT
                      ![q] = respond(createNotificationAfterSQS(@, result,
                                                                 SqsCause))]
        /\ events' = [events EXCEPT
                        ![q] = @ \o eventsAfterSQS(reqs[q], result)]
        /\ store' = persisted
        /\ nextId' = IF persisted # store THEN nextId + 1 ELSE nextId
        /\ UNCHANGED <<now, last, callVars, nodeEnv, topics>>

\* sqsClient.send settles and createNotification returns or throws.
SqsSettles(q, ok) ==
    LET result == IF ok THEN Some("sqs-message-id") ELSE Null
    IN  /\ q \in DOMAIN reqs
        /\ reqs[q].pc = "sqsWait"
        /\ reqs' = [reqs EXCEPT
                      ![q] = respond(createNotificationAfterSQS(@, result,
                                                                 SqsCause))]
        /\ events' = [events EXCEPT
                        ![q] = @ \o eventsAfterSQS(reqs[q], result)]
        /\ UNCHANGED <<storeVars, callVars, nodeEnv, topics>>

NoRequests == [q \in {} |-> Null]
EmptyStore == [id \in {} |-> Null]
AllTopics == [k \in TopicTypes |-> TRUE]
NoCalls == [p \in {} |-> Null]

Init ==
    /\ store = EmptyStore
    /\ nextId = 1
    /\ now = 0
    /\ last = [op |-> "init"]
    /\ nodeEnv = "production"
    /\ topics = AllTopics
    /\ reqs = NoRequests
    /\ events = NoRequests
    /\ calls = NoCalls

Next ==
    \/ \E input \in CreateInputs(now) : Create(input)
    \/ \E id \in 1..MaxNotifs : MarkAsRead(id)
    \/ \E id \in 1..MaxNotifs, c \in ChannelInputs, m \in MessageIdInputs :
            MarkAsDelivered(id, c, m)
    \/ \E id \in 1..MaxNotifs : CompleteAction(id)
    \/ \E r \in Recipients : MarkAllAsRead(r)
    \/ \E d \in DaysOldInputs : DeleteOld(d)
    \/ \E id \in 1..MaxNotifs : DeleteNotification(id)
    \/ TTLExpire
    \/ Tick

Spec == Init /\ [][Next]_vars

\* The service with its environment: NODE_ENV and the configured topics are
\* fixed when the process starts; creation requests run beside the store.
InitDispatch ==
    /\ store = EmptyStore
    /\ nextId = 1
    /\ now = 0
    /\ last = [op |-> "init"]
    /\ nodeEnv \in {"development", "production", "test"}
    /\ topics \in {AllTopics, [AllTopics EXCEPT !["ALARM"] = FALSE]}
    /\ reqs = NoRequests
    /\ events = NoRequests
    /\ calls = NoCalls

DispatchCreateInputs ==
    {input \in CreateInputs(now) :
        Has(input, "priority") /\ input.priority = "high"}

NextDispatch ==
    \/ \E in \in RequestInputs : ReceiveCreate(in[1], in[2])
    \/ \E q \in 1..MaxReqs, ok \in BOOLEAN : SnsSettles(q, ok)
    \/ \E q \in 1..MaxReqs, ok \in BOOLEAN : SqsSettles(q, ok)
    \/ \E input \in DispatchCreateInputs : Create(input)
    \/ \E id \in 1..MaxNotifs : DeleteNotification(id)

SpecDispatch == InitDispatch /\ [][NextDispatch]_vars

\* Delivery bookkeeping on freshly created notifications: every channel key
\* of the schema and one that is none, at one instant.
DeliveryCreateInputs ==
    {input \in CreateInputs(now) :
        Has(input, "priority") /\ input.priority = "high"}

AllChannelInputs == {"push", "email", "sms", "inApp", "fax"}

NextDelivery ==
    \/ \E input \in DeliveryCreateInputs : Create(input)
    \/ \E id \in 1..MaxNotifs, c \in AllChannelInputs, m \in MessageIdInputs :
            MarkAsDelivered(id, c, m)
    \/ \E id \in 1..MaxNotifs : MarkAsRead(id)

SpecDelivery == Init /\ [][NextDelivery]_vars

\* The recipient queries over the notifications of the model's query tests,
\* and one that expires a day after its creation; notifications get read.
QueryCreateInputs(t) ==
    { [type |-> "file_upload", title |-> SampleTitle,
       message |-> SampleMessage, priority |-> "high",
       recipientId |-> "doctor1", read |-> FALSE],
      [type |-> "task_assigned", title |-> SampleTitle,
       message |-> SampleMessage, priority |-> "normal",
       recipientId |-> "doctor1", read |-> FALSE],
      [type |-> "file_upload", title |-> SampleTitle,
       message |-> SampleMessage, priority |-> "normal",
       recipientId |-> "nurse1", read |-> FALSE],
      [type |-> "task_assigned", title |-> SampleTitle,
       message |-> SampleMessage, priority |-> "low",
       recipientId |-> "doctor1", read |-> TRUE],
      [type |-> "alarm", title |-> SampleTitle,
       message |-> SampleMessage, priority |-> "urgent",
       recipientId |-> "doctor1", expiresAt |-> Some(t + 1)] }

NextQuery ==
    \/ \E input \in QueryCreateInputs(now) : Create(input)
    \/ \E id \in 1..MaxNotifs : MarkAsRead(id)
    \/ TTLExpire
    \/ Tick

SpecQuery == Init /\ [][NextQuery]_vars

\* Creation with accepted and refused inputs, in the record store and over
\* HTTP.  A title is trimmed before its length is validated.
ValidCreateInputs(t) ==
    { [type |-> "file_upload", title |-> SampleTitle,
       message |-> SampleMessage, priority |-> "high",
       recipientId |-> "doctor1", recipientType |-> "staff"],
      [type |-> "task_assigned", title |-> Text(2, TitleMaxLen),
       message |-> SampleMessage, recipientId |-> "nurse1"],
      [type |-> "task_assigned", title |-> SampleTitle,
       message |-> SampleMessage, recipientId |-> "doctor1",
       read |-> TRUE, createdAt |-> t - OldAgeDays] }

InvalidCreateInputs ==
    { [title |-> SampleTitle],
      [type |-> "alarm", message |-> SampleMessage,
       recipientId |-> "doctor1"],
      [type |-> "task_created", title |-> SampleTitle,
       message |-> SampleMessage, recipientId |-> "doctor1"],
      [type |-> "alarm", title |-> SampleTitle, message |-> SampleMessage,
       priority |-> "critical", recipientId |-> "doctor1"],
      [type |-> "alarm", title |-> Text(0, TitleMaxLen + 1),
       message |-> SampleMessage, recipientId |-> "doctor1"],
      [type |-> "alarm", title |-> SampleTitle,
       message |-> Text(0, MessageMaxLen + 1), recipientId |-> "doctor1"] }

HttpCreateBodies ==
    GenericBodies
        \cup { [type |-> "file_upload", entityType |-> "task",
                entityId |-> "task1", title |-> "Task", message |-> "Task",
                priority |-> "critical"],
               [type |-> "file_upload", entityType |-> "task",
                entityId |-> "task1", title |-> "Task"] }

NextCreate ==
    \/ \E input \in ValidCreateInputs(now) \cup InvalidCreateInputs :
            Create(input)
    \/ \E body \in HttpCreateBodies : ReceiveCreate("generic", body)
    \/ \E q \in 1..MaxReqs, ok \in BOOLEAN : SnsSettles(q, ok)
    \/ \E q \in 1..MaxReqs, ok \in BOOLEAN : SqsSettles(q, ok)

SpecCreate == Init /\ [][NextCreate]_vars

\* The lifecycle of stored notifications, one operation after the other at
\* one instant: two recipients, a notification created as delivered and one
\* created as read.
LifecycleCreateInputs ==
    { [type |-> "file_upload", title |-> SampleTitle,
       message |-> SampleMessage, recipientId |-> "doctor1"],
      [type |-> "alarm", title |-> SampleTitle, message |-> SampleMessage,
       recipientId |-> "nurse1", status |-> "delivered"],
      [type |-> "task_assigned", title |-> SampleTitle,
       message |-> SampleMessage, recipientId |-> "doctor1",
       read |-> TRUE] }

NextLifecycle ==
    \/ \E input \in LifecycleCreateInputs : Create(input)
    \/ \E id \in 1..MaxNotifs : MarkAsRead(id)
    \/ \E r \in Recipients : MarkAllAsRead(r)
    \/ \E id \in 1..MaxNotifs, m \in MessageIdInputs :
            MarkAsDelivered(id, "push", m)
    \/ \E id \in 1..MaxNotifs : CompleteAction(id)
    \/ \E id \in 1..MaxNotifs : DeleteNotification(id)

SpecLifecycle == Init /\ [][NextLifecycle]_vars

\* Interleaved requests on one notification: instance methods split at
\* their awaits, against the bulk update and the deletes.
ConcurrentCreateInputs(t) ==
    { [type |-> "file_upload", title |-> SampleTitle,
       message |-> SampleMessage, recipientId |-> "doctor1"],
      [type |-> "task_assigned", title |-> SampleTitle,
       message |-> SampleMessage, recipientId |-> "doctor1",
       read |-> TRUE, createdAt |-> t - OldAgeDays] }

ConcurrentChannelInputs == {"push", "email"}

NextConcurrent ==
    \/ \E input \in ConcurrentCreateInputs(now) : nextId = 1 /\ Create(input)
    \/ \E p \in Callers, id \in 1..MaxNotifs :
          \E op \in {"markAsRead", "completeAction"} : Load(p, op, id, <<>>)
    \/ \E p \in Callers, id \in 1..MaxNotifs :
          \E c \in ConcurrentChannelInputs, m \in MessageIdInputs :
              Load(p, "markAsDelivered", id, <<c, m>>)
    \/ \E p \in Callers : Save(p)
    \/ MarkAllAsRead("doctor1")
    \/ \E id \in 1..MaxNotifs : DeleteNotification(id)
    \/ DeleteOld(DefaultDaysOld)
    \/ Tick

SpecConcurrent == Init /\ [][NextConcurrent]_vars

\* Interleaved mark-as-read requests alone, on one notification.
NextConcurrentRead ==
    \/ \E input \in LifecycleCreateInputs : nextId = 1 /\ Create(input)
    \/ \E p \in Callers, id \in 1..MaxNotifs : Load(p, "markAsRead", id, <<>>)
    \/ \E p \in Callers : Save(p)
    \/ Tick

SpecConcurrentRead == Init /\ [][NextConcurrentRead]_vars

-----------------------------------------------------------------------------
(* Properties of the record store *)

ReadAtIffRead(n) == (n.readAt # Null) <=> n.read

\* C1 (as stated): every stored notification has readAt non-null if and
\* only if read is true.
C1_ReadAtIffRead ==
    \A id \in Ids(store) : ReadAtIffRead(store[id])

\* C1 (amended): a notification created without explicit read and readAt
\* has readAt non-null iff read is true, and no operation on a stored
\* notification that has readAt non-null iff read true makes it lose that.
C1_ReadAtIffReadPreserved ==
    [][\A id \in Ids(store') :
          IF id \in Ids(store)
            THEN ReadAtIffRead(store[id]) => ReadAtIffRead(store'[id])
            ELSE (~Has(last'.input, "read") /\ ~Has(last'.input, "readAt"))
                    => ReadAtIffRead(store'[id])]_vars

\* C1 witness: a notification created with defaults has been marked read.
C1_Witness ==
    /\ last.op \in {"markAsRead", "markAllAsRead"}
    /\ \E id \in Ids(store) :
          store[id].read /\ store[id].readAt # Null /\ store[id].priority = "high"

\* C2: for every recipient, getUnreadCount equals the length of what
\* findUnread returns at the same instant.
C2_UnreadCountIsFindUnreadLength ==
    \A r \in Recipients :
        \A result \in findUnread(store, r, now) :
            Len(result) = getUnreadCount(store, r, now)

\* C2 witness: a recipient has one counted unread notification beside an
\* unread one that has expired and is still stored.
C2_Witness ==
    \E r \in Recipients :
        /\ getUnreadCount(store, r, now) = 1
        /\ \E id \in Ids(store) :
              /\ store[id].recipientId = r
              /\ store[id].read = FALSE
              /\ store[id].expiresAt # Null
              /\ store[id].expiresAt[1] <= now

\* C3: right after markAllAsRead(r), getUnreadCount(r) is 0.
C3_NoUnreadAfterMarkAll ==
    last.op = "markAllAsRead"
        => getUnreadCount(store, last.recipientId, now) = 0

\* C3 witness: markAllAsRead has just marked two notifications.
C3_Witness ==
    last.op = "markAllAsRead" /\ last.modifiedCount = 2

\* C4: markAllAsRead(r) leaves every notification of r that was unread with
\* read true, readAt non-null and status read; its modifiedCount is the
\* number of notifications it changed; and issued again right after itself
\* it returns 0 and changes nothing.
C4_MarkAllAsReadCounts ==
    [][last'.op = "markAllAsRead" =>
          LET r == last'.recipientId IN
          /\ Ids(store') = Ids(store)
          /\ \A id \in Ids(store) :
                (store[id].recipientId = r /\ ~store[id].read)
                    => /\ store'[id].read
                       /\ store'[id].readAt # Null
                       /\ store'[id].status = "read"
          /\ last'.modifiedCount =
                Cardinality({id \in Ids(store) : store'[id] # store[id]})
          /\ (last.op = "markAllAsRead" /\ last.recipientId = r)
                => (last'.modifiedCount = 0 /\ store' = store)]_vars

\* C4 witness: markAllAsRead has just run on a recipient whose notifications
\* are all read, one of them by a bulk update, and it changed nothing.
C4_Witness ==
    /\ last.op = "markAllAsRead"
    /\ last.modifiedCount = 0
    /\ \E id \in Ids(store) :
          /\ store[id].recipientId = last.recipientId
          /\ store[id].status = "read"
          /\ store[id].readAt # Null
          /\ store[id].updatedAt = store[id].readAt[1]

\* C5: deleteOld(d) removes no unread notification, removes every read
\* notification created before the cutoff, and keeps every notification
\* created after the cutoff.
C5_DeleteOldKeepsUnread ==
    [][last'.op = "deleteOld" =>
          LET cutoff == now - last'.daysOld IN
          \A id \in Ids(store) :
              /\ ~store[id].read => id \in Ids(store')
              /\ (store[id].read /\ store[id].createdAt < cutoff)
                    => id \notin Ids(store')
              /\ store[id].createdAt > cutoff => id \in Ids(store')
              /\ id \in Ids(store') => store'[id] = store[id]]_vars

\* C5 witness: deleteOld has removed a notification and an unread one
\* created before the cutoff is still stored.
C5_Witness ==
    /\ last.op = "deleteOld"
    /\ last.deleted # {}
    /\ \E id \in Ids(store) :
          ~store[id].read /\ store[id].createdAt < now - last.daysOld

-----------------------------------------------------------------------------
(* Properties of the dispatch path *)

Succeeded(q) == reqs[q].outcome.kind = "returned"

\* The collaborator invocations of a request that published to SNS and then
\* to SQS, each once and each to completion, with one payload.
PublishedThenQueued(q) ==
    LET e == events[q] IN
    /\ Len(e) = 4
    /\ e[1].call = "sns" /\ e[1].phase = "start"
    /\ e[2] = [call |-> "sns", phase |-> "ok"]
    /\ e[3].call = "sqs" /\ e[3].phase = "start"
    /\ e[4] = [call |-> "sqs", phase |-> "ok"]
    /\ e[1].message = e[3].message
    /\ e[1].message = Serialize(reqs[q].outcome.value.notification)

\* C6 (as stated): whenever createNotification returns a successful result,
\* SNS and then SQS have each been invoked once with the same payload, SQS
\* after SNS completed, and both completed before the return.
C6_SuccessMeansPublishedThenQueued ==
    \A q \in DOMAIN reqs : Succeeded(q) => PublishedThenQueued(q)

\* C6 (amended): the same, whenever createNotification returns a successful
\* result outside development mode.
C6_SuccessOutsideDevelopmentMeansPublishedThenQueued ==
    \A q \in DOMAIN reqs :
        (Succeeded(q) /\ nodeEnv # "development") => PublishedThenQueued(q)

\* C6 witness: a creation has succeeded outside development mode.
C6_Witness ==
    \E q \in DOMAIN reqs :
        Succeeded(q) /\ nodeEnv # "development" /\ Len(events[q]) = 4

Failed(q, call) ==
    \E i \in 1..Len(events[q]) :
        events[q][i].call = call /\ events[q][i].phase = "fail"

\* C7: if the SNS publish or the SQS send of a creation fails, the creation
\* throws the collaborator's own error and is answered with a 500 carrying
\* its message, never with a success.
C7_CollaboratorFailureFailsCreation ==
    \A q \in DOMAIN reqs :
        \A call \in {"sns", "sqs"} :
            Failed(q, call) =>
                /\ reqs[q].outcome.kind = "thrown"
                /\ reqs[q].outcome.error =
                      (IF call = "sns" THEN SnsCause ELSE SqsCause)
                /\ reqs[q].kind # "service" =>
                      /\ reqs[q].response.status = 500
                      /\ reqs[q].response.body.error = reqs[q].outcome.error

\* C7 witness: the SQS send of an HTTP creation failed after its SNS publish
\* had succeeded.
C7_Witness ==
    \E q \in DOMAIN reqs :
        /\ Failed(q, "sqs")
        /\ events[q][2] = [call |-> "sns", phase |-> "ok"]
        /\ reqs[q].response.status = 500

KnownEntityTypes == {"task", "alarm", "visit", "medicine", "audio", "photo"}

\* The request called createNotification (it passed the controller's
\* validation, or it is a direct call of the service).
Dispatched(r) == r.outcome.kind # "rejected"

\* C8: a dispatch whose entityType is none of task, alarm, visit, medicine,
\* audio, photo throws the unknown-entity-type error, invokes neither SNS
\* nor SQS, and leaves the store as it was.
C8_UnknownEntityTypeRejected ==
    [][\A q \in DOMAIN reqs' \ DOMAIN reqs :
          (Dispatched(reqs'[q])
              /\ reqs'[q].notification.entityType \notin KnownEntityTypes)
            => /\ reqs'[q].pc = "done"
               /\ reqs'[q].outcome =
                    [kind |-> "thrown",
                     error |-> <<"Unknown entity type",
                                 reqs'[q].notification.entityType>>]
               /\ events'[q] = <<>>
               /\ store' = store]_vars

\* C8 witness: a direct call of the service with an unknown entityType has
\* thrown.
C8_Witness ==
    \E q \in DOMAIN reqs :
        /\ reqs[q].kind = "service"
        /\ reqs[q].body.entityType \notin KnownEntityTypes
        /\ reqs[q].outcome.kind = "thrown"

NoQuery == EmptyObject

\* A templated task creation for a recipient has been answered 201 and no
\* store operation has run, so the store is as empty as it started.
TaskCreatedOnEmptyStore(q) ==
    /\ reqs[q].kind = "task"
    /\ reqs[q].response.status = 201
    /\ Has(reqs[q].body, "assignedTo")
    /\ last.op = "init"

\* C9 (as stated): after a successful task creation with assignedTo = r on
\* an empty store, the list query for r returns exactly one record, of type
\* task_created, with the request's priority and due date.
C9_TaskCreationIsListed ==
    \A q \in DOMAIN reqs :
        TaskCreatedOnEmptyStore(q) =>
            \A res \in getNotifications(store, reqs[q].body.assignedTo,
                                        NoQuery) :
                /\ res.body.count = 1
                /\ res.body.data[1].type = "task_created"
                /\ res.body.data[1].priority = reqs[q].body.priority
                /\ res.body.data[1].metadata.dueDate = reqs[q].body.dueDate

\* C9 (amended): after a successful task creation with assignedTo = r on an
\* empty store, the list query for r returns no record; the notification in
\* the creation's response has type task_created, r as its only recipient,
\* the request's priority (normal when none is given) and, when a due date
\* is given, metadata.dueDate at the same instant in the ISO form.
C9_TaskCreationIsAnsweredNotListed ==
    \A q \in DOMAIN reqs :
        TaskCreatedOnEmptyStore(q) =>
            LET body == reqs[q].body
                n == reqs[q].response.body.notification
            IN  /\ \A res \in getNotifications(store, body.assignedTo, NoQuery) :
                      res.body.count = 0
                /\ n.type = "task_created"
                /\ n.recipients = <<body.assignedTo>>
                /\ n.priority = Get(body, "priority", "normal")
                /\ Has(body, "dueDate") =>
                      /\ Has(n.metadata, "dueDate")
                      /\ n.metadata.dueDate = DateIn(body.dueDate.instant, "iso")

\* C9 witness: a task creation with a priority and a due date has been
\* answered 201 while no store operation has run.
C9_Witness ==
    \E q \in DOMAIN reqs :
        /\ TaskCreatedOnEmptyStore(q)
        /\ Has(reqs[q].body, "priority")
        /\ Has(reqs[q].body, "dueDate")

\* C10: no step of a creation request, generic or templated, succeeding or
\* failing, adds, changes or removes a record of the store.
C10_CreationLeavesStoreUnchanged ==
    [][(reqs' # reqs \/ events' # events)
          => (store' = store /\ nextId' = nextId)]_vars

\* C10 witness: creation requests have succeeded and failed beside a store
\* that holds a record.
C10_Witness ==
    /\ Ids(store) # {}
    /\ \E q \in DOMAIN reqs : Succeeded(q) /\ Len(reqs[q].notification.recipients) > 0

-----------------------------------------------------------------------------
(* Properties of the delivery-state methods *)

\* The channel keys the schema declares under channels.
RecognizedChannels == DOMAIN DefaultChannels

\* C11 (as stated): markAsDelivered with a channel that is no recognized
\* channel key changes nothing of the notification: not its status, not a
\* channel sub-record, not any other field.
C11_UnknownChannelIsNoOp ==
    [][(last'.op = "markAsDelivered"
            /\ last'.channel \notin RecognizedChannels)
          => store' = store]_vars

\* C13 (as stated): once the readAt of a stored notification is non-null, no
\* later operation changes its value.
C13_ReadAtSetOnce ==
    [][\A id \in Ids(store) \cap Ids(store') :
          store[id].readAt # Null
              => store'[id].readAt = store[id].readAt]_vars

\* The notification a markAsDelivered step was called on, before and after.
DeliveredStep(c) ==
    /\ last'.op = "markAsDelivered"
    /\ last'.channel = c

\* C12 (as stated): for each channel c of push, email, sms and inApp,
\* markAsDelivered(n, c, m) leaves that channel's sub-record with sent true,
\* sentAt non-null and messageId m, leaves the other channels' sub-records
\* unchanged, and promotes status to sent exactly when it was pending.
C12_DeliveredOnEveryChannel ==
    [][\A c \in {"push", "email", "sms", "inApp"} :
          DeliveredStep(c) =>
              LET before == store[last'.id]
                  after == store'[last'.id]
              IN  /\ Has(after.channels[c], "sent")
                  /\ after.channels[c].sent = TRUE
                  /\ Has(after.channels[c], "sentAt")
                  /\ after.channels[c].sentAt # Null
                  /\ Has(after.channels[c], "messageId")
                  /\ after.channels[c].messageId = Some(last'.messageId)
                  /\ \A o \in {"push", "email", "sms", "inApp"} \ {c} :
                        after.channels[o] = before.channels[o]
                  /\ after.status = IF before.status = "pending"
                                      THEN "sent" ELSE before.status]_vars

\* C12 (amended): the same for each channel c of push, email and sms; for
\* inApp, whose sub-record holds displayed and displayedAt only, every
\* stored channel sub-record is left unchanged and status is promoted in the
\* same way.
C12_DeliveredOnDeliveryChannel ==
    [][\A c \in {"push", "email", "sms", "inApp"} :
          DeliveredStep(c) =>
              LET before == store[last'.id]
                  after == store'[last'.id]
              IN  /\ c # "inApp" =>
                        after.channels[c] =
                            [sent |-> TRUE, sentAt |-> Some(now),
                             messageId |-> Some(last'.messageId)]
                  /\ c = "inApp" => after.channels = before.channels
                  /\ \A o \in {"push", "email", "sms", "inApp"} \ {c} :
                        after.channels[o] = before.channels[o]
                  /\ after.status = IF before.status = "pending"
                                      THEN "sent" ELSE before.status]_vars

\* C12 witness: a read notification already delivered on push has just been
\* delivered on email, and another notification is still pending.
C12_Witness ==
    /\ last.op = "markAsDelivered"
    /\ last.channel = "email"
    /\ store[last.id].channels.email.sent
    /\ store[last.id].channels.push.sent
    /\ store[last.id].status = "read"
    /\ \E id \in Ids(store) : store[id].status = "pending"

-----------------------------------------------------------------------------
(* Properties of the recipient queries *)

\* The rank of a priority: low, normal, high, urgent in rising order.
PriorityRank == [low |-> 1, normal |-> 2, high |-> 3, urgent |-> 4]

\* C14 (as stated): findUnread(r) returns its notifications with urgent
\* before high before normal before low and, within one priority, the later
\* created first.
C14_FindUnreadByPriorityRank ==
    \A r \in Recipients :
        \A result \in findUnread(store, r, now) :
            \A i, j \in 1..Len(result) :
                i < j =>
                    LET a == store[result[i]]
                        b == store[result[j]]
                    IN  \/ PriorityRank[a.priority] > PriorityRank[b.priority]
                        \/ /\ a.priority = b.priority
                           /\ a.createdAt >= b.createdAt

\* A stored notification whose expiresAt is set and has passed.
Expired(n, t) == n.expiresAt # Null /\ n.expiresAt[1] <= t

\* The filter combinations of a list query; limit is left at its default.
FilterInputs ==
    {[k \in K |-> f[k]] :
        f \in [type : {"file_upload"}, read : {"true", "false"},
               priority : {"normal"}],
        K \in SUBSET {"type", "read", "priority"}}

\* C15 (as stated): a stored notification whose expiresAt has passed is
\* never returned by findUnread, never counted by getUnreadCount and never
\* returned by the recipient list query.
C15_ExpiredExcludedFromQueries ==
    \A id \in Ids(store) :
        Expired(store[id], now) =>
            LET r == store[id].recipientId IN
            /\ \A result \in findUnread(store, r, now) :
                  \A i \in 1..Len(result) : result[i] # id
            /\ getUnreadCount(store, r, now)
                  = getUnreadCount(Remove(store, {id}), r, now)
            /\ \A query \in FilterInputs :
                  \A result \in findByRecipient(store, r,
                                    [k \in DOMAIN query |->
                                        IF k = "read" THEN query.read = "true"
                                                      ELSE query[k]]) :
                      \A i \in 1..Len(result) : result[i] # id

\* The limit parameter of a list query: a number, or a text without one.
LimitTexts ==
    {[lead |-> Some(0)], [lead |-> Some(1)], [lead |-> Some(2)],
     [lead |-> Null]}

\* The list queries: every filter combination, without and with a limit.
QueryInputs ==
    FilterInputs
        \cup {("limit" :> l) @@ f : f \in FilterInputs, l \in LimitTexts}

\* The stored notifications of r that match every filter the query supplies.
Matching(S, r, query) ==
    {id \in Ids(S) :
        /\ S[id].recipientId = r
        /\ Has(query, "type") => S[id].type = query.type
        /\ (Has(query, "read") /\ query.read = "true") => S[id].read
        /\ (Has(query, "read") /\ query.read = "false") => ~S[id].read
        /\ Has(query, "priority") => S[id].priority = query.priority}

\* The limit a query asks for: its number, 50 when it gives none.
RequestedLimit(query) ==
    IF Has(query, "limit") /\ query.limit.lead # Null
      THEN query.limit.lead[1] ELSE DefaultLimit

\* Every returned record is a stored record matching the query, returned no
\* more often than it is stored.
OnlyStoredMatching(data, S, r, query) ==
    \A i \in 1..Len(data) :
        /\ \E id \in Matching(S, r, query) : S[id] = data[i]
        /\ Cardinality({j \in 1..Len(data) : data[j] = data[i]})
             <= Cardinality({id \in Matching(S, r, query) : S[id] = data[i]})

\* C16: the list query for r with any combination of the filters type, read
\* and priority returns only notifications of r that match every supplied
\* filter, the later created first, and leaves out a matching notification
\* only when the limit is reached, and then only one created no later than
\* those returned.
C16_ListFiltersCompose ==
    \A r \in Recipients :
        \A query \in QueryInputs :
            \A res \in getNotifications(store, r, query) :
                LET data == res.body.data
                    M == Matching(store, r, query)
                IN  /\ res.status = 200
                    /\ res.body.count = Len(data)
                    /\ OnlyStoredMatching(data, store, r, query)
                    /\ \A i, j \in 1..Len(data) :
                          i < j => data[i].createdAt >= data[j].createdAt
                    /\ Len(data) >=
                          Min(RequestedLimit(query), Cardinality(M))
                    /\ \A id \in M :
                          (\A i \in 1..Len(data) : data[i] # store[id])
                              => \A i \in 1..Len(data) :
                                    data[i].createdAt >= store[id].createdAt

\* C16 witness: a recipient has a read and an unread notification of
\* different types, priorities and creation times, so that every filter
\* selects and a limit of 1 truncates.
C16_Witness ==
    \E a, b \in Ids(store) :
        /\ store[a].recipientId = store[b].recipientId
        /\ store[a].read /\ ~store[b].read
        /\ store[a].type # store[b].type
        /\ store[a].priority # store[b].priority
        /\ store[a].createdAt < store[b].createdAt

\* C17 (as stated): for every requested limit L, 0 included, the list query
\* returns at most L records; when the limit is omitted or is no number it
\* returns at most 50; and every returned record is a stored record
\* matching the query.
C17_LimitBoundsResult ==
    \A r \in Recipients :
        \A query \in QueryInputs :
            \A res \in getNotifications(store, r, query) :
                /\ Len(res.body.data) <= RequestedLimit(query)
                /\ OnlyStoredMatching(res.body.data, store, r, query)

-----------------------------------------------------------------------------
(* Properties of creation *)

\* A creation input of the record store that misses a required field,
\* carries an enum value outside its set or exceeds a length bound.
StoreInputRefusable(input) ==
    \/ \E f \in {"type", "title", "message", "recipientId"} : ~Has(input, f)
    \/ Has(input, "type") /\ input.type \notin NotificationTypes
    \/ Has(input, "priority") /\ input.priority \notin Priorities
    \/ Has(input, "recipientType")
         /\ input.recipientType \notin RecipientTypes
    \/ Has(input, "status") /\ input.status \notin Statuses
    \/ Has(input, "title") /\ input.title.len > TitleMaxLen
    \/ Has(input, "message") /\ input.message.len > MessageMaxLen

\* The body of an HTTP creation request that misses a required field or
\* carries an enum value outside its set.
HttpBodyRefusable(body) ==
    \/ \E f \in {"type", "entityType", "entityId", "title", "message"} :
          ~Has(body, f)
    \/ Has(body, "entityType") /\ body.entityType \notin KnownEntityTypes
    \/ Has(body, "priority") /\ body.priority \notin Priorities

\* The step is a call of Notification.create.
CreateStep == last' # last /\ last'.op = "create"

OmittedTakeDefaults(input, n) ==
    /\ ~Has(input, "priority") => n.priority = "normal"
    /\ ~Has(input, "recipientType") => n.recipientType = "staff"
    /\ ~Has(input, "actionRequired") => n.actionRequired = FALSE

\* C19 (as stated): for every creation input the record store accepts, the
\* new record has read false, readAt null and status pending, and omitted
\* optional fields take their defaults.
C19_CreatedUnreadPending ==
    [][(CreateStep /\ last'.ok) =>
          LET n == store'[last'.id] IN
          /\ n.read = FALSE
          /\ n.readAt = Null
          /\ n.status = "pending"
          /\ OmittedTakeDefaults(last'.input, n)]_vars

\* C19 (amended): for every creation input the record store accepts, read,
\* readAt and status are false, null and pending where the input omits them
\* and as given where it supplies them, and omitted optional fields take
\* their defaults.
C19_CreatedWithGivenOrDefault ==
    [][(CreateStep /\ last'.ok) =>
          LET n == store'[last'.id]
              input == last'.input
          IN  /\ n.read = (IF Has(input, "read") THEN input.read ELSE FALSE)
              /\ n.readAt =
                    (IF Has(input, "readAt") THEN input.readAt ELSE Null)
              /\ n.status =
                    (IF Has(input, "status") THEN input.status ELSE "pending")
              /\ OmittedTakeDefaults(input, n)]_vars

\* C19 witness: a notification has just been created from the required
\* fields alone and is unread, pending, of normal priority, for staff.
C19_Witness ==
    /\ last.op = "create"
    /\ last.ok
    /\ DOMAIN last.input = {"type", "title", "message", "recipientId"}
    /\ store[last.id].status = "pending"
    /\ store[last.id].priority = "normal"
    /\ ~store[last.id].read

-----------------------------------------------------------------------------
(* Properties of routing *)

\* C20 (as stated): a creation request whose entityType is audio or photo
\* is accepted and published to the TASK topic, as a request with
\* entityType task is.
C20_AudioPhotoRoutedAsTask ==
    \A q \in DOMAIN reqs :
        (Has(reqs[q].body, "entityType")
            /\ reqs[q].body.entityType \in {"audio", "photo"})
          => /\ Dispatched(reqs[q])
             /\ nodeEnv # "development"
                  => /\ events[q] # <<>>
                     /\ events[q][1].topic = TopicTypeOf("task")[1]

-----------------------------------------------------------------------------
(* Properties of the single-record operations and of the lifecycle *)

StatusRank == [pending |-> 1, sent |-> 2, delivered |-> 3, read |-> 4]

\* C26: under any sequence of markAsRead, markAllAsRead, markAsDelivered
\* and completeAction, one after the other, the status of a notification
\* never moves backward in the order pending, sent, delivered, read.
C26_StatusNeverMovesBackward ==
    [][\A id \in Ids(store) \cap Ids(store') :
          store[id].status \in DOMAIN StatusRank
              => /\ store'[id].status \in DOMAIN StatusRank
                 /\ StatusRank[store'[id].status]
                      >= StatusRank[store[id].status]]_vars

\* C26 witness: a notification that is read, or one created as delivered,
\* has just been marked delivered on a channel and kept its status.
C26_Witness ==
    /\ last.op = "markAsDelivered"
    /\ store[last.id].channels.push.sent
    /\ store[last.id].status \in {"delivered", "read"}

\* C28: markAllAsRead(r) changes no notification of another recipient and
\* no field of a notification of r that was already read.
C28_MarkAllAsReadFrame ==
    [][(last' # last /\ last'.op = "markAllAsRead") =>
          /\ Ids(store') = Ids(store)
          /\ \A id \in Ids(store) :
                (store[id].recipientId # last'.recipientId \/ store[id].read)
                    => store'[id] = store[id]]_vars

\* C28 witness: markAllAsRead has just marked a notification while an
\* unread notification of the other recipient and an already read one of
\* its own recipient, or one of the two, are stored beside it.
C28_Witness ==
    /\ last.op = "markAllAsRead"
    /\ last.modifiedCount = 1
    /\ \E id \in Ids(store) :
          \/ store[id].recipientId # last.recipientId /\ ~store[id].read
          \/ /\ store[id].recipientId = last.recipientId
             /\ store[id].readAt = Null

-----------------------------------------------------------------------------
(* Properties of the statistics *)

\* A breakdown of the notifications in I by the field f: one entry per
\* distinct value, whose count is the number of notifications with it.
IsBreakdown(entries, S, I, f) ==
    /\ Len(entries) = Cardinality({S[id][f] : id \in I})
    /\ \A i \in 1..Len(entries) :
          entries[i].count =
              Cardinality({id \in I : S[id][f] = entries[i][f]})

\* C22 (as stated): for every recipient r, getStats(r) yields total = the
\* number of r's notifications, unread = the number of them with read
\* false, and byType and byPriority as per-value breakdowns (none to break
\* down for a recipient without notifications).
C22_StatsAreBreakdowns ==
    \A r \in Recipients :
        \A res \in getStatsResponse(store, r) :
            LET data == res.body.data
                mine == {id \in Ids(store) : store[id].recipientId = r}
            IN  /\ data.total = Cardinality(mine)
                /\ data.unread =
                      Cardinality({id \in mine : ~store[id].read})
                /\ IsBreakdown(Get(data, "byType", <<>>), store, mine, "type")
                /\ IsBreakdown(Get(data, "byPriority", <<>>), store, mine,
                               "priority")

-----------------------------------------------------------------------------
(* Properties of interleaved requests *)

\* The step in which the save of request p settles.
SaveSettles(p) == p \in Loaded /\ calls'[p] = Settled

\* C23: whenever the save of a mark-as-read request settles on a stored
\* notification, however the request was interleaved with others, the
\* stored notification has read = true, status = read and a readAt that
\* this request stamped or an earlier one had stored, and no other field but
\* updatedAt has changed.
C23_ConcurrentMarkAsRead ==
    [][\A p \in Callers :
          (/\ SaveSettles(p)
           /\ calls[p].op = "markAsRead"
           /\ calls[p].id \in Ids(store))
          => LET id == calls[p].id
             IN  /\ store'[id].read = TRUE
                 /\ store'[id].status = "read"
                 /\ store'[id].readAt # Null
                 /\ \/ \E t \in calls[p].at..now :
                          store'[id].readAt = Some(t)
                    \/ store'[id].readAt = store[id].readAt
                 /\ \A f \in DOMAIN store[id] \
                               {"read", "readAt", "status", "updatedAt"} :
                        store'[id][f] = store[id][f]]_vars

\* Two mark-as-read requests loaded the notification unread; the second of
\* them has saved over the first one's write.
C23_Witness ==
    /\ last.op = "markAsRead"
    /\ last.status = 200
    /\ ~last.loaded.read
    /\ "readAt" \in last.stale
    /\ last.id \in Ids(store)
    /\ store[last.id].read
    /\ store[last.id].status = "read"
    /\ store[last.id].readAt # Null

\* What a settled save of `call` shows on the stored document `after`.
OwnEffect(call, after) ==
    CASE call.op = "markAsRead" -> after.read = TRUE /\ after.readAt # Null
      [] call.op = "completeAction" ->
            after.actionCompleted = TRUE /\ after.actionCompletedAt # Null
      [] call.op = "markAsDelivered" ->
            call.args[1] \in DeliveryChannels
            => /\ after.channels[call.args[1]].sent = TRUE
               /\ after.channels[call.args[1]].sentAt # Null
               /\ after.channels[call.args[1]].messageId = Some(call.args[2])

\* The fields of other operations are as they were stored before the save.
OthersKept(call, before, after) ==
    /\ \A c \in DOMAIN before.channels :
          \/ call.op = "markAsDelivered" /\ c = call.args[1]
          \/ after.channels[c] = before.channels[c]
    /\ \/ call.op = "markAsRead"
       \/ after.read = before.read /\ after.readAt = before.readAt
    /\ \/ call.op = "completeAction"
       \/ /\ after.actionCompleted = before.actionCompleted
          /\ after.actionCompletedAt = before.actionCompletedAt

\* C24: whenever the save of markAsDelivered, markAsRead or completeAction
\* settles on a stored notification, whatever was saved since the request
\* loaded its copy, the stored notification carries the operation's effect
\* on its own fields (the channel's sub-record, read and readAt, the action
\* completion) and keeps the other channels' sub-records and the other
\* operations' fields as stored.
C24_NoLostUpdate ==
    [][\A p \in Callers :
          (SaveSettles(p) /\ calls[p].id \in Ids(store))
          => /\ OwnEffect(calls[p], store'[calls[p].id])
             /\ OthersKept(calls[p], store[calls[p].id],
                           store'[calls[p].id])]_vars

\* A markAsDelivered loaded the notification with neither channel sent and
\* saved after the other channel's delivery was stored; both are stored.
C24_Witness ==
    /\ last.op = "markAsDelivered"
    /\ last.status = 200
    /\ "channels" \in last.stale
    /\ ~last.loaded.channels.push.sent
    /\ ~last.loaded.channels.email.sent
    /\ last.id \in Ids(store)
    /\ store[last.id].channels.push.sent
    /\ store[last.id].channels.email.sent

\* C25 (as stated): once a notification is stored as read (read = true,
\* status = read), no markAsDelivered whose save settles later changes its
\* status away from read, whenever that request loaded its copy.
C25_ReadStatusIsKept ==
    [][\A p \in Callers :
          (/\ SaveSettles(p)
           /\ calls[p].op = "markAsDelivered"
           /\ calls[p].id \in Ids(store)
           /\ store[calls[p].id].read = TRUE
           /\ store[calls[p].id].status = "read")
          => store'[calls[p].id].status = "read"]_vars

\* The notifications some query returns from the store S at time t.
Returned(S, t) ==
    UNION {{seq[i] : i \in 1..Len(seq)} :
              seq \in UNION {findUnread(S, r, t)
                               \cup findByRecipient(S, r, EmptyObject) :
                                 r \in Recipients}}

\* C27: a notification that has been removed (by delete-by-id or deleteOld)
\* is in the store after no step and no query returns it; the save of a
\* request that loaded it before the removal fails and writes nothing.
C27_DeletedNeverReappears ==
    [][\A id \in 1..MaxNotifs :
          (id < nextId /\ id \notin Ids(store))
          => /\ id \notin Ids(store')
             /\ id \notin Returned(store', now')
             /\ \A p \in Callers :
                   (SaveSettles(p) /\ calls[p].id = id)
                   => /\ last'.status = 500
                      /\ last'.error = "DocumentNotFoundError"
                      /\ store' = store]_vars

\* The save of a copy loaded before the deletion has failed, and the
\* notification is not stored.
C27_Witness ==
    /\ last.op \in InstanceMethods
    /\ last.status = 500
    /\ last.error = "DocumentNotFoundError"
    /\ last.id < nextId
    /\ last.id \notin Ids(store)
    /\ last.id \notin Returned(store, now)

-----------------------------------------------------------------------------
(* Properties of development mode and of the templates *)

\* C29: in development mode a dispatch invokes neither SNS nor SQS; with a
\* known entityType it returns success with a notification whose status is
\* sent, with an unknown entityType it throws the unknown-entity-type error.
C29_DevelopmentModeSkipsCollaborators ==
    nodeEnv = "development" =>
        \A q \in DOMAIN reqs :
            Dispatched(reqs[q]) =>
                /\ events[q] = <<>>
                /\ reqs[q].pc = "done"
                /\ IF reqs[q].notification.entityType \in KnownEntityTypes
                     THEN /\ Succeeded(q)
                          /\ reqs[q].outcome.value.success = TRUE
                          /\ reqs[q].outcome.value.notification.status = "sent"
                     ELSE reqs[q].outcome =
                              [kind |-> "thrown",
                               error |-> <<"Unknown entity type",
                                           reqs[q].notification.entityType>>]

\* A creation has succeeded in development mode without a collaborator
\* having been invoked.
C29_Witness ==
    /\ nodeEnv = "development"
    /\ \E q \in DOMAIN reqs :
          /\ Succeeded(q)
          /\ reqs[q].notification.entityType \in KnownEntityTypes
          /\ reqs[q].outcome.value.notification.status = "sent"
          /\ events[q] = <<>>

TemplateKinds == {"task", "alarm", "visit", "medicine"}

\* C30 (as stated): the type a template (task, alarm, visit, medicine) puts
\* in its payload is in the schema's type enum, so a record with that type
\* passes the store's type validation.
C30_TemplateTypesAreStoreTypes ==
    \A q \in DOMAIN reqs :
        (reqs[q].kind \in TemplateKinds /\ Dispatched(reqs[q]))
          => /\ reqs[q].notification.type \in NotificationTypes
             /\ "type" \notin
                  ValidationErrors([type |-> reqs[q].notification.type])

====
